---------------------------- MODULE Spec2Model ----------------------------
(***************************************************************************)
(* Model of movie_bot.py: a Telegram bot that takes a four-line posting    *)
(* request, searches a movie database, and - when the search is ambiguous  *)
(* - keeps the candidate list in context.user_data until the user picks    *)
(* one by number.                                                          *)
(*                                                                         *)
(* The Application is built with its defaults (line 198): updates are      *)
(* taken from the update queue one at a time and the handler of an update  *)
(* is awaited to its end before the next update is dispatched.  Both       *)
(* handlers are registered in the same (default) group (lines 201, 204):   *)
(* within a group the first handler whose filter accepts the update        *)
(* handles it and the others are not tried.                                *)
(*                                                                         *)
(* Two specifications are given.  Spec is the program as main() wires it.  *)
(* SpecHandlers runs each handler on any update its own filter accepts,    *)
(* and so exercises the code of handle_choice, which Spec never reaches.   *)
(***************************************************************************)
EXTENDS Integers, Sequences, FiniteSets, TLC

VARIABLES
    user_data,      \* context.user_data of every user (lines 134, 155, 174, 175)
    update_queue,   \* updates received from Telegram and not yet dispatched
    cur,            \* the update being handled: handler, position, locals
    sent,           \* the messages sent to the user while handling cur
    delivered,      \* number of updates received so far
    expired,        \* a user's search_results are older than the maximum session age
    posts           \* photo posts made from a user's stored search_results

vars == <<user_data, update_queue, cur, sent, delivered, expired, posts>>

----------------------------------------------------------------------------
(* Bounds of the model *)

MaxUpdates == 3     \* updates received in one run
MaxQueue == 1       \* updates waiting in the update queue
MaxResults == 6     \* length of the provider's raw result list

(* Constants of the program *)

PageSize == 5       \* data.get('results', [])[:5]
RequiredLines == 4  \* len(lines) != 4
YearLen == 4        \* movie.get('release_date', '')[:4]

None == "None"
Users == {"u1", "u2"}

Min(a, b) == IF a < b THEN a ELSE b

----------------------------------------------------------------------------
(* Message text.  A text is the sequence of its lines (text.split('\n'));  *)
(* a line is its content without surrounding blanks (core) and whether     *)
(* blanks precede (lead) or follow (trail) it.                             *)

Ln(c)  == [lead |-> FALSE, core |-> c, trail |-> FALSE]
Pad(c) == [lead |-> TRUE,  core |-> c, trail |-> TRUE]

IsBlank(line) == line.core = ""

\* str.strip() of one line
StripLine(line) == line.core

\* str.lower()
Lower(s) ==
    CASE s = "D" -> "d"
      [] s = "H" -> "h"
      [] s = "E" -> "e"
      [] OTHER   -> s

\* language_shorthand.split(',')
SplitComma(s) ==
    CASE s = "h,tm" -> <<"h", "tm">>
      [] s = "h,z"  -> <<"h", "z">>
      [] OTHER      -> <<s>>

\* A mutant of StartsWithSlash: no text is taken to begin with '/'.
StartsWithSlashNever(line) == FALSE

\* str.startswith('/')
StartsWithSlash(line) == ~line.lead /\ line.core \in {"/start", "/!"}

\* text.strip(): blanks and line breaks are removed at both ends of the text
StripText(t) ==
    LET keep == {i \in DOMAIN t : ~IsBlank(t[i])}
    IN  IF keep = {} THEN <<Ln("")>>
        ELSE LET lo == CHOOSE i \in keep : \A j \in keep : i <= j
                 hi == CHOOSE i \in keep : \A j \in keep : j <= i
                 body == SubSeq(t, lo, hi)
             IN  [i \in 1..Len(body) |->
                    [lead  |-> IF i = 1 THEN FALSE ELSE body[i].lead,
                     core  |-> body[i].core,
                     trail |-> IF i = Len(body) THEN FALSE ELSE body[i].trail]]

DigitVal(s) ==
    CASE s = "1" -> 1 [] s = "2" -> 2 [] s = "3" -> 3
      [] s = "4" -> 4 [] s = "5" -> 5 [] s = "6" -> 6
      [] s = "7" -> 7 [] s = "8" -> 8 [] s = "9" -> 9

DigitCores == {"1", "2", "3", "4", "5", "6", "7", "8", "9"}

\* int(text.strip()) of a text the choice filter accepted
IntOf(t) == DigitVal(StripText(t)[1].core)

----------------------------------------------------------------------------
(* Filters and dispatch (main, lines 198-206) *)

\* filters.TEXT: the message has a text
FilterText(t) == t # <<>> /\ t # <<Ln("")>>

\* filters.COMMAND: the text starts with a bot command
FilterCommand(t) == t # <<>> /\ ~t[1].lead /\ t[1].core = "/start"

\* filters.Regex(r'^[1-9]$'): re.search on the text; $ also matches before a
\* line break that ends the text
FilterRegexChoice(t) ==
    /\ Len(t) \in {1, 2}
    /\ t[1] \in {Ln(d) : d \in DigitCores}
    /\ Len(t) = 2 => t[2] = Ln("")

Handlers == <<"handle_initial_message", "handle_choice">>

\* MessageHandler.check_update
HandlerAccepts(h, t) ==
    IF h = "handle_initial_message"
    THEN FilterText(t) /\ ~FilterCommand(t)
    ELSE FilterRegexChoice(t)

\* Application.process_update: the first handler of the group that accepts
FirstMatch(t) ==
    LET ok == {i \in DOMAIN Handlers : HandlerAccepts(Handlers[i], t)}
    IN  IF ok = {} THEN None
        ELSE Handlers[CHOOSE i \in ok : \A j \in ok : i <= j]

----------------------------------------------------------------------------
(* Static tables (lines 22-36) *)

print_map == [c \in {"d", "h", "f"} |->
                CASE c = "d" -> "DVD" [] c = "h" -> "HD" [] c = "f" -> "FHD"]

language_map == [c \in {"h", "t", "k", "m", "e", "b", "tm"} |->
                CASE c = "h" -> "Hindi"     [] c = "t" -> "Telugu"
                  [] c = "k" -> "Kannada"   [] c = "m" -> "Malayalam"
                  [] c = "e" -> "English"   [] c = "b" -> "Bengali"
                  [] c = "tm" -> "Tamil"]

\* print_map.get(code, "Unknown")
PrintFull(code) == IF code \in DOMAIN print_map THEN print_map[code] ELSE "Unknown"

\* [language_map[l] for l in shorthand.split(',')] raises KeyError on a
\* code that is not in the table
LanguageRaises(shorthand) ==
    \E i \in DOMAIN SplitComma(shorthand) : SplitComma(shorthand)[i] \notin DOMAIN language_map

\* ', '.join(...) kept as the sequence of the joined names
LanguageFull(shorthand) ==
    [i \in DOMAIN SplitComma(shorthand) |-> language_map[SplitComma(shorthand)[i]]]

----------------------------------------------------------------------------
(* The movie database (get_movie_search_results, get_full_movie_details).  *)
(* What the provider answers is not under the program's control: the       *)
(* number of results and the failure of a request are chosen freely.       *)

Titles == {"Inception", "Heat"}

TitleNo(title) == IF title = "Inception" THEN 1 ELSE 2

MovieId(title, i) == 10 * TitleNo(title) + i

MovieTitle(id) == <<"title", id>>

ReleaseDate(i) ==
    CASE i % 3 = 1 -> <<"2", "0", "1", "0", "-", "0", "7">>
      [] i % 3 = 2 -> <<>>
      [] OTHER     -> <<"1", "9", "9">>

\* data['results'] of a search for title that matches n movies
RawResults(title, n) ==
    [i \in 1..n |-> [id           |-> MovieId(title, i),
                     title        |-> MovieTitle(MovieId(title, i)),
                     release_date |-> ReleaseDate(i)]]

\* s[:n]
Take(s, n) == SubSeq(s, 1, Min(n, Len(s)))

\* A mutant of get_movie_search_results: the page is not cut.
get_movie_search_results_uncut(raw) == raw

\* get_movie_search_results on a successful request: data.get('results', [])[:5]
get_movie_search_results(raw) == Take(raw, PageSize)

PosterPath == "/poster.jpg"

\* get_full_movie_details on a successful request
get_full_movie_details(id, has_poster) ==
    [title       |-> MovieTitle(id),
     poster_path |-> IF has_poster THEN PosterPath ELSE "",
     genres      |-> <<"Action", "Sci-Fi">>]

----------------------------------------------------------------------------
(* Outbound messages *)

MsgFormat      == "The message format is incorrect. It should have exactly four lines."
MsgSearching   == "Searching for movie..."
MsgConnect     == "Failed to connect to the movie database."
MsgNotFound    == "Movie not found."
MsgDetails     == "Failed to get full movie details."
MsgInvalid     == "Invalid choice. Please send a number from the list."
MsgGetting     == "Getting details for your chosen movie..."
MsgNoPoster    == "Poster not available for this movie."

NoPhoto == [poster |-> "", title |-> <<>>, print |-> "", language |-> <<>>,
            genres |-> <<>>, link |-> ""]

\* update.message.reply_text(s)
TextMsg(s) == [kind |-> "text", text |-> s, entries |-> <<>>, photo |-> NoPhoto]

\* the numbered lines of the choice list (lines 149-151)
ListEntries(results) ==
    [i \in DOMAIN results |->
        [num |-> i, title |-> results[i].title,
         year |-> Take(results[i].release_date, YearLen)]]

ListMsg(results) ==
    [kind |-> "list", text |-> "", entries |-> ListEntries(results), photo |-> NoPhoto]

\* context.bot.send_photo(...) of send_final_post (lines 87-111)
PhotoMsg(details, parsed_data) ==
    [kind |-> "photo", text |-> "", entries |-> <<>>,
     photo |-> [poster   |-> details.poster_path,
                title    |-> details.title,
                print    |-> parsed_data.print_full,
                language |-> parsed_data.language_full,
                genres   |-> details.genres,
                link     |-> parsed_data.link]]

\* send_final_post: the message it sends
send_final_post(details, parsed_data) ==
    IF details.poster_path = "" THEN TextMsg(MsgNoPoster)
    ELSE PhotoMsg(details, parsed_data)

----------------------------------------------------------------------------
(* State *)

NoParsed == [print_shorthand |-> "", language_shorthand |-> "", link |-> "",
             print_full |-> "", language_full |-> <<>>]

\* an empty context.user_data: neither key is set
EmptyUserData == [has_parsed |-> FALSE, parsed_data |-> NoParsed,
                  has_results |-> FALSE, search_results |-> <<>>]

Idle == [user |-> None, text |-> <<>>, handler |-> None, pc |-> "idle",
         pending |-> <<>>, wasExpired |-> FALSE, search |-> "none", found |-> 0,
         results |-> <<>>, choice |-> 0, selected |-> 0,
         listed |-> <<>>, overlap |-> FALSE, details |-> "none"]

\* the texts users send
Submission1 == <<Ln("Inception"), Ln("h"), Ln("e"), Ln("link1")>>
Submission2 == <<Pad("Heat"), Pad("D"), Ln("h,tm"), Pad("link2")>>
ThreeLines  == <<Ln("Heat"), Ln("d"), Ln("h")>>
Command     == <<Ln("/start")>>
\* a text that begins with '/' and is no bot command
Slash       == <<Ln("/!")>>
\* four lines of which the second is blank
BlankLine   == <<Ln("Heat"), Ln(""), Ln("e"), Ln("link2")>>
\* a print code and a language code that the tables do not hold
BadPrint    == <<Ln("Heat"), Ln("x"), Ln("e"), Ln("link2")>>
BadLanguage == <<Ln("Inception"), Ln("h"), Ln("h,z"), Ln("link1")>>

Choices == {<<Ln(d)>> : d \in {"1", "3", "6"}}

Texts == {Submission1, Submission2, ThreeLines, Command, Slash, BlankLine,
          BadPrint, BadLanguage} \cup Choices

\* the second user sends a few of the texts only
OtherTexts == {Submission2, <<Ln("1")>>}

TextsOf(u) == IF u = "u1" THEN Texts ELSE OtherTexts

\* the link that the submissions for a title carry
LinkOfTitle(title) == IF title = "Inception" THEN "link1" ELSE "link2"

Init ==
    /\ user_data = [u \in Users |-> EmptyUserData]
    /\ update_queue = <<>>
    /\ cur = Idle
    /\ sent = <<>>
    /\ delivered = 0
    /\ expired = [u \in Users |-> FALSE]
    /\ posts = [u \in Users |-> 0]

\* user_data.get('search_results') is truthy: the user has a pending session
HasSession(u) == user_data[u].has_results /\ user_data[u].search_results # <<>>

\* cur, the update being handled (pc "done": handled and not yet replaced):
\*   pending, wasExpired  the user's stored candidates and whether they had
\*                        expired when the update was dispatched
\*   search, found        the outcome of the search request and the number
\*                        of movies the provider matched
\*   results              search_results of the handler
\*   choice, selected     user_choice and selected_movie_id
\*   listed               for a numeric reply: the candidates of the choice list
\*                        that had been sent to the user when the reply was
\*                        received, nothing of the user waiting before it
\*   overlap              the update was received while a submission of the
\*                        user was being handled
\*   details              the outcome of the detail request

Finished == cur.pc \in {"idle", "done"}

----------------------------------------------------------------------------
(* Arrival and dispatch of updates *)

\* the candidates of the choice list u has been sent by the handler that runs
\* or ran last, when no other update of u waits in the queue
ListedTo(u) ==
    IF /\ cur.user = u
       /\ cur.handler = "handle_initial_message"
       /\ cur.pc \in {"store", "done"}
       /\ Len(cur.results) > 1
       /\ \A i \in DOMAIN update_queue : update_queue[i].user # u
    THEN cur.results
    ELSE <<>>

\* a submission of u is being handled
SubmissionRunning(u) ==
    /\ cur.user = u
    /\ cur.handler = "handle_initial_message"
    /\ cur.pc \in {"start", "search", "store"}
    /\ Len(StripText(cur.text)) = RequiredLines
    /\ ~StartsWithSlash(StripText(cur.text)[1])

\* Telegram delivers a text message of user u
Receive(u, t) ==
    /\ delivered < MaxUpdates
    /\ Len(update_queue) < MaxQueue
    /\ update_queue' = Append(update_queue,
           [user |-> u, text |-> t,
            listed |-> IF FilterRegexChoice(t) THEN ListedTo(u) ELSE <<>>,
            overlap |-> SubmissionRunning(u)])
    /\ delivered' = delivered + 1
    /\ UNCHANGED <<user_data, cur, sent, expired, posts>>

\* the candidates u can choose from: user_data.get('search_results') or []
PendingOf(u) == IF user_data[u].has_results THEN user_data[u].search_results ELSE <<>>

\* the next update is taken from the queue and given to handler h (None: no
\* handler accepts it and it is dropped)
Dispatch(h) ==
    /\ Finished
    /\ update_queue # <<>>
    /\ cur' = [Idle EXCEPT !.user = Head(update_queue).user,
                           !.text = Head(update_queue).text,
                           !.handler = h,
                           !.pc = IF h = None THEN "done" ELSE "start",
                           !.pending = PendingOf(Head(update_queue).user),
                           !.wasExpired = expired[Head(update_queue).user],
                           !.listed = Head(update_queue).listed,
                           !.overlap = Head(update_queue).overlap]
    /\ update_queue' = Tail(update_queue)
    /\ sent' = <<>>
    /\ UNCHANGED <<user_data, delivered, expired, posts>>

\* Application.process_update as main() registers the handlers
process_update ==
    /\ update_queue # <<>>
    /\ FirstMatch(Head(update_queue).text) # None
    /\ Dispatch(FirstMatch(Head(update_queue).text))

\* every handler is run on the updates its own filter accepts
run_handler ==
    /\ update_queue # <<>>
    /\ \E i \in DOMAIN Handlers :
          /\ HandlerAccepts(Handlers[i], Head(update_queue).text)
          /\ Dispatch(Handlers[i])

\* an update no handler accepts is dropped
drop_update ==
    /\ update_queue # <<>>
    /\ FirstMatch(Head(update_queue).text) = None
    /\ Dispatch(None)

\* time passes: the pending session of u becomes older than the maximum session
\* age of the design; nothing in the program reads a clock
Expire(u) ==
    /\ HasSession(u)
    /\ ~expired[u]
    /\ expired' = [expired EXCEPT ![u] = TRUE]
    /\ UNCHANGED <<user_data, update_queue, cur, sent, delivered, posts>>

----------------------------------------------------------------------------
(* handle_initial_message (lines 113-168) *)

\* lines 126-133: the title and the parsed data of four lines
movie_title(lines) == StripLine(lines[1])

parsed_data_of(lines) ==
    [print_shorthand    |-> Lower(StripLine(lines[2])),
     language_shorthand |-> Lower(StripLine(lines[3])),
     link               |-> StripLine(lines[4]),
     print_full         |-> "",
     language_full      |-> <<>>]

Say(m) == sent' = Append(sent, m)

\* A mutant of StoreKey: one dictionary is shared by all users.
StoreKeyShared(u) == "u1"

\* context.user_data is the dictionary of the user who sent the update
StoreKey(u) == u

\* A mutant of UserDataAfterStart: every message resets the stored candidates.
UserDataAfterStartReset(ud, lines) ==
    IF Len(lines) # RequiredLines
    THEN [ud EXCEPT !.has_results = FALSE, !.search_results = <<>>]
    ELSE [ud EXCEPT !.has_parsed = TRUE, !.parsed_data = parsed_data_of(lines),
                    !.has_results = FALSE, !.search_results = <<>>]

\* lines 121-134: what a text that is no command does to the user's data
UserDataAfterStart(ud, lines) ==
    IF Len(lines) # RequiredLines
    THEN ud
    ELSE [ud EXCEPT !.has_parsed = TRUE, !.parsed_data = parsed_data_of(lines)]

Done == cur' = [cur EXCEPT !.pc = "done"]

\* lines 115-136: up to the reply "Searching for movie..."
handle_initial_message_start ==
    /\ cur.handler = "handle_initial_message"
    /\ cur.pc = "start"
    /\ LET lines == StripText(cur.text)
       IN  IF StartsWithSlash(lines[1])
           THEN /\ Done
                /\ UNCHANGED <<user_data, sent>>
           ELSE /\ user_data' = [user_data EXCEPT
                                   ![StoreKey(cur.user)] = UserDataAfterStart(@, lines)]
                /\ IF Len(lines) # RequiredLines
                   THEN /\ Say(TextMsg(MsgFormat))
                        /\ Done
                   ELSE /\ Say(TextMsg(MsgSearching))
                        /\ cur' = [cur EXCEPT !.pc = "search"]
    /\ UNCHANGED <<update_queue, delivered, expired, posts>>

\* lines 164-166 and 190-192: the shorthand codes are mapped into the stored
\* parsed_data; the print name is written before the language lookup can raise
MapShorthand(pd) ==
    IF LanguageRaises(pd.language_shorthand)
    THEN [pd EXCEPT !.print_full = PrintFull(pd.print_shorthand)]
    ELSE [pd EXCEPT !.print_full = PrintFull(pd.print_shorthand),
                    !.language_full = LanguageFull(pd.language_shorthand)]

\* lines 159-168 and 185-194: the details of movie id are fetched and the
\* post is sent; u's stored parsed_data is the dictionary that is updated
DetailOutcomes == {"error", "no_poster", "ok"}

FetchAndPost(u, id, outcome) ==
    IF outcome = "error"
    THEN /\ Say(TextMsg(MsgDetails))
         /\ UNCHANGED user_data
    ELSE LET pd == MapShorthand(user_data[u].parsed_data)
         IN  /\ user_data' = [user_data EXCEPT ![u].parsed_data = pd]
             /\ IF LanguageRaises(pd.language_shorthand)
                THEN UNCHANGED sent
                ELSE Say(send_final_post(
                            get_full_movie_details(id, outcome = "ok"), pd))

\* line 47: how many movies the provider's answer holds: none, one, a few, or
\* more than a page
ResultCounts == {0, 1, 2, 3, MaxResults}

\* lines 137-153 and 156-168: the search and what follows it up to the next
\* reply
handle_initial_message_search ==
    /\ cur.handler = "handle_initial_message"
    /\ cur.pc = "search"
    /\ \/ /\ Say(TextMsg(MsgConnect))
          /\ cur' = [cur EXCEPT !.pc = "done", !.search = "error"]
          /\ UNCHANGED user_data
       \/ \E n \in ResultCounts :
            LET search_results ==
                  get_movie_search_results(RawResults(movie_title(StripText(cur.text)), n))
            IN  IF search_results = <<>>
                THEN /\ Say(TextMsg(MsgNotFound))
                     /\ cur' = [cur EXCEPT !.pc = "done", !.search = "ok", !.found = n]
                     /\ UNCHANGED user_data
                ELSE IF Len(search_results) > 1
                THEN /\ Say(ListMsg(search_results))
                     /\ cur' = [cur EXCEPT !.pc = "store", !.search = "ok", !.found = n,
                                           !.results = search_results]
                     /\ UNCHANGED user_data
                ELSE \E outcome \in DetailOutcomes :
                     /\ FetchAndPost(StoreKey(cur.user), search_results[1].id, outcome)
                     /\ cur' = [cur EXCEPT !.pc = "done", !.search = "ok", !.found = n,
                                           !.results = search_results,
                                           !.selected = search_results[1].id,
                                           !.details = outcome]
    /\ UNCHANGED <<update_queue, delivered, expired, posts>>

\* A mutant of StoreResults: the candidates are not stored.
StoreResultsNever(ud, results) == ud

\* A mutant of StoreResults: the first candidate is lost.
StoreResultsTail(ud, results) ==
    [ud EXCEPT !.has_results = TRUE, !.search_results = Tail(results)]

\* line 155: context.user_data['search_results'] = search_results
StoreResults(ud, results) ==
    [ud EXCEPT !.has_results = TRUE, !.search_results = results]

\* line 155, after the choice list has been sent
handle_initial_message_store ==
    /\ cur.handler = "handle_initial_message"
    /\ cur.pc = "store"
    /\ user_data' = [user_data EXCEPT ![StoreKey(cur.user)] = StoreResults(@, cur.results)]
    /\ expired' = [expired EXCEPT ![cur.user] = FALSE]
    /\ posts' = [posts EXCEPT ![cur.user] = 0]
    /\ Done
    /\ UNCHANGED <<update_queue, sent, delivered>>

----------------------------------------------------------------------------
(* handle_choice (lines 170-194) *)

\* line 181: search_results[user_choice]['id'], user_choice counted from 0
Selected(search_results, user_choice) == search_results[user_choice + 1].id

\* line 177
InvalidChoice(u, user_choice) ==
    \/ ~HasSession(u)
    \/ user_choice < 0
    \/ user_choice >= Len(user_data[u].search_results)

\* lines 172-183: up to the reply "Getting details for your chosen movie..."
handle_choice_start ==
    /\ cur.handler = "handle_choice"
    /\ cur.pc = "start"
    /\ LET user_choice == IntOf(cur.text) - 1
       IN  IF InvalidChoice(StoreKey(cur.user), user_choice)
           THEN /\ Say(TextMsg(MsgInvalid))
                /\ cur' = [cur EXCEPT !.pc = "done", !.choice = user_choice]
           ELSE /\ Say(TextMsg(MsgGetting))
                /\ cur' = [cur EXCEPT
                             !.pc = "fetch", !.choice = user_choice,
                             !.results = user_data[StoreKey(cur.user)].search_results,
                             !.selected = Selected(user_data[StoreKey(cur.user)].search_results,
                                                   user_choice)]
    /\ UNCHANGED <<user_data, update_queue, delivered, expired, posts>>

\* lines 185-194
handle_choice_fetch ==
    /\ cur.handler = "handle_choice"
    /\ cur.pc = "fetch"
    /\ \E outcome \in DetailOutcomes :
          /\ FetchAndPost(StoreKey(cur.user), cur.selected, outcome)
          /\ cur' = [cur EXCEPT !.pc = "done", !.details = outcome]
    /\ posts' = [posts EXCEPT ![cur.user] =
                   IF sent' # sent /\ sent'[Len(sent')].kind = "photo"
                   THEN Min(@ + 1, MaxUpdates) ELSE @]
    /\ UNCHANGED <<update_queue, delivered, expired>>

----------------------------------------------------------------------------
(* Specifications *)

Handling ==
    \/ handle_initial_message_start
    \/ handle_initial_message_search
    \/ handle_initial_message_store
    \/ drop_update
    \/ \E u \in Users : \E t \in TextsOf(u) : Receive(u, t)

\* the program as main() wires it: no reply is ever resolved against stored
\* candidates, so the age of a session is never looked at
Next == process_update \/ Handling

Spec == Init /\ [][Next]_vars

\* time passes for the session of some user
Time == \E u \in Users : Expire(u)

\* the handlers, each run on what its own filter accepts
NextHandlers ==
    run_handler \/ handle_choice_start \/ handle_choice_fetch \/ Time \/ Handling

SpecHandlers == Init /\ [][NextHandlers]_vars

----------------------------------------------------------------------------
(* Properties *)

Handled == cur.pc = "done"

\* the reply is a number the filter of handle_choice accepts
IsChoice(t) == FilterRegexChoice(t)

\* the text is taken as a four-line submission by handle_initial_message
IsSubmission(t) ==
    /\ FilterText(t)
    /\ ~StartsWithSlash(StripText(t)[1])
    /\ Len(StripText(t)) = RequiredLines

\* the reply selects one of the candidates that were pending at dispatch
InRange(t, pending) == IntOf(t) \in 1..Len(pending)

Photos == {i \in DOMAIN sent : sent[i].kind = "photo"}

\* C1: a numeric reply (one digit 1-9) of a user who has a pending session is
\* dispatched to handle_choice and not to handle_initial_message.
C1_ChoiceGoesToHandleChoice ==
    (cur.pc # "idle" /\ IsChoice(cur.text) /\ cur.pending # <<>>)
        => cur.handler = "handle_choice"

\* C2: a numeric reply of a user without a pending session is answered with
\* the error of handle_choice alone, is not handled as a submission (no format
\* error) and leaves the user without a session.
C2_ReplyWithoutSession ==
    (Handled /\ IsChoice(cur.text) /\ cur.pending = <<>>)
        => /\ cur.handler = "handle_choice"
           /\ sent = <<TextMsg(MsgInvalid)>>
           /\ ~HasSession(cur.user)

\* C3: a stored session yields at most one post: once a reply has resolved
\* it, the session is gone and a further reply posts nothing.
C3_OnePostPerSession == \A u \in Users : posts[u] <= 1

\* C4: a numeric reply outside the range of the stored candidates is answered
\* with the invalid-choice error, posts nothing and destroys the session.
C4_InvalidChoiceDestroysSession ==
    (Handled /\ cur.handler = "handle_choice" /\ cur.pending # <<>>
             /\ ~InRange(cur.text, cur.pending))
        => /\ sent = <<TextMsg(MsgInvalid)>>
           /\ ~HasSession(cur.user)

\* C5: once a four-line submission of a user who had a pending session has
\* been handled, whatever its outcome, the candidates stored for the user are
\* those of the new search or none at all.
C5_SubmissionInvalidatesSession ==
    (Handled /\ cur.handler = "handle_initial_message" /\ IsSubmission(cur.text)
             /\ cur.pending # <<>>)
        => \/ ~HasSession(cur.user)
           \/ /\ Len(cur.results) > 1
              /\ user_data[cur.user].search_results = cur.results

\* C6: a numeric reply that handle_choice handles after the user's session
\* has passed the maximum age is answered as a reply without a session and
\* posts nothing, even when it is in range.
C6_ExpiredSessionUnreachable ==
    (Handled /\ cur.handler = "handle_choice" /\ cur.wasExpired)
        => sent = <<TextMsg(MsgInvalid)>>

\* C7: a numeric reply k, 1 <= k <= n, to a stored session of n candidates
\* is resolved to the k-th candidate: the details are fetched for its id and
\* a post that is sent carries its title.
C7_ReplyResolvesKth ==
    (Handled /\ IsChoice(cur.text) /\ cur.pending # <<>>
             /\ InRange(cur.text, cur.pending))
        => /\ cur.selected = cur.pending[IntOf(cur.text)].id
           /\ \A i \in Photos :
                 sent[i].photo.title = MovieTitle(cur.pending[IntOf(cur.text)].id)

\* C8: when the search of a submission returns n >= 2 candidates, the one
\* list that is sent has n entries numbered 1..n, in the provider's order,
\* each with the title and the year of its candidate, and once the submission
\* is handled the user's stored candidates are those n, in the same order, next
\* to the parsed data of the submission.
C8_ListAndSession ==
    (Handled /\ cur.handler = "handle_initial_message" /\ cur.found >= 2)
        => LET n == Min(cur.found, PageSize)
               title == StripText(cur.text)[1].core
           IN  /\ Len(sent) = 2
               /\ sent[1] = TextMsg(MsgSearching)
               /\ sent[2].kind = "list"
               /\ Len(sent[2].entries) = n
               /\ \A i \in 1..n :
                     /\ sent[2].entries[i].num = i
                     /\ sent[2].entries[i].title = MovieTitle(MovieId(title, i))
                     /\ sent[2].entries[i].year = Take(ReleaseDate(i), YearLen)
               /\ user_data[cur.user].has_results
               /\ Len(user_data[cur.user].search_results) = n
               /\ \A i \in 1..n :
                     user_data[cur.user].search_results[i].id = MovieId(title, i)
               /\ user_data[cur.user].has_parsed
               /\ user_data[cur.user].parsed_data.link = StripText(cur.text)[4].core

\* a search that found three movies has been answered and the three are stored
C8_Witness ==
    /\ Handled
    /\ cur.handler = "handle_initial_message"
    /\ cur.found = 3
    /\ Len(sent) = 2
    /\ Len(sent[2].entries) = 3
    /\ Len(user_data[cur.user].search_results) = 3

\* C9: when the search of a submission returns exactly one candidate, the
\* details of that candidate are fetched and, when the exchange ends, the user
\* has no stored session.
C9_SingleMatchNoSession ==
    (Handled /\ cur.handler = "handle_initial_message" /\ cur.found = 1)
        => /\ cur.selected = cur.results[1].id
           /\ ~user_data[cur.user].has_results

\* C10: the candidates stored for a user are never empty and never more than
\* the page of 5.
C10_SessionSize ==
    \A u \in Users :
        user_data[u].has_results
            => /\ Len(user_data[u].search_results) >= 1
               /\ Len(user_data[u].search_results) <= PageSize

\* a full page is stored from a search that matched more movies than a page
C10_Witness ==
    /\ Handled
    /\ cur.found > PageSize
    /\ user_data[cur.user].has_results
    /\ Len(user_data[cur.user].search_results) = PageSize

\* handle_choice, where it runs, fetches the details of the candidate the
\* reply numbers and posts from the session that was pending.
HandleChoiceIndexing ==
    (cur.handler = "handle_choice" /\ cur.pc \in {"fetch", "done"}
                                   /\ InRange(cur.text, cur.pending))
        => cur.selected = cur.pending[IntOf(cur.text)].id

\* a shorthand code of the parsed data is in neither table
UnknownShorthand(pd) ==
    \/ pd.print_shorthand \notin DOMAIN print_map
    \/ LanguageRaises(pd.language_shorthand)

\* the last message of the exchange is a plain-text error
EndsWithError ==
    /\ sent # <<>>
    /\ sent[Len(sent)].kind = "text"
    /\ sent[Len(sent)].text \notin {MsgSearching, MsgGetting}

\* C11: when the details of a movie are asked for (single match or selection
\* reply) on behalf of a submission with a print code or a language code that
\* the tables do not hold, the exchange ends with a plain-text error and no
\* post is sent.
C11_UnknownShorthandReported ==
    (Handled /\ cur.details # "none"
             /\ UnknownShorthand(user_data[cur.user].parsed_data))
        => /\ Photos = {}
           /\ EndsWithError

\* the text has exactly four lines, none of them blank
FourNonBlankLines(t) == Len(t) = RequiredLines /\ \A i \in DOMAIN t : ~IsBlank(t[i])

\* C12: a text that is no command is accepted by the parser (and searched
\* for) exactly when it has four lines that are all non-empty after trimming;
\* every other text gets the format error and no search is made for it.
C12_ParserAcceptsFourNonBlank ==
    (Handled /\ cur.handler = "handle_initial_message"
             /\ ~StartsWithSlash(StripText(cur.text)[1]))
        => IF FourNonBlankLines(cur.text)
           THEN cur.search # "none"
           ELSE sent = <<TextMsg(MsgFormat)>> /\ cur.search = "none"

\* the title whose search returned the movie id
SearchedTitle(id) == CHOOSE title \in Titles : \E i \in 1..MaxResults : id = MovieId(title, i)

\* the parsed data stored for u and the candidates stored for u come from
\* submissions for the same title
MatchingPair(u) ==
    HasSession(u)
        => /\ user_data[u].has_parsed
           /\ user_data[u].parsed_data.link =
                 LinkOfTitle(SearchedTitle(user_data[u].search_results[1].id))

\* C13: when a user's submission that was received while an earlier submission
\* of the same user was being handled has itself been handled, the parsed data
\* and the candidates stored for the user belong to the same submission.
C13_OverlappingSubmissionsPair ==
    (Handled /\ cur.handler = "handle_initial_message" /\ IsSubmission(cur.text)
             /\ cur.overlap)
        => MatchingPair(cur.user)

\* C14: a step changes the stored data of a user only while a message of that
\* user is being handled: handling a message of one user (submission, reply,
\* error path) leaves what is stored for every other user unchanged.
C14_UsersDoNotInterfere ==
    [][\A u \in Users : user_data'[u] # user_data[u] => cur.user = u]_vars

\* a submission of u2 has been handled and stored while u1 has a session
C14_Witness ==
    /\ Handled
    /\ cur.user = "u2"
    /\ cur.handler = "handle_initial_message"
    /\ HasSession("u2")
    /\ HasSession("u1")
    /\ user_data["u1"].search_results # user_data["u2"].search_results

\* C15: a numeric reply that was received after the choice list had been sent
\* to its user is dispatched only when the candidates of that list are stored:
\* whatever handles the reply finds the session of the list in the store.
C15_StoredBeforeReply ==
    (cur.pc # "idle" /\ IsChoice(cur.text) /\ cur.listed # <<>>)
        => /\ cur.pending = cur.listed
           /\ cur.pc = "start" => PendingOf(cur.user) = cur.listed

\* a reply that arrived between the sending of the list and the storing of the
\* candidates is about to be handled
C15_Witness ==
    /\ cur.pc = "start"
    /\ IsChoice(cur.text)
    /\ cur.overlap
    /\ cur.listed # <<>>
    /\ cur.pending = cur.listed

\* after the progress message, the poster-unavailable text is the one message
\* of the exchange
OnlyPosterUnavailable ==
    /\ Len(sent) = 2
    /\ sent[1] \in {TextMsg(MsgSearching), TextMsg(MsgGetting)}
    /\ sent[2] = TextMsg(MsgNoPoster)

\* C16: when the details fetched for the resolved movie (single match or
\* selection reply) have no poster path, no photo is sent and the one message
\* sent for that outcome is the poster-unavailable text.
C16_NoPosterNoPhoto ==
    (Handled /\ cur.details = "no_poster")
        => /\ Photos = {}
           /\ OnlyPosterUnavailable

\* send_final_post, where it is reached, sends the poster-unavailable text and
\* no photo for details without a poster path.
SendFinalPostWithoutPoster ==
    (Handled /\ cur.details = "no_poster"
             /\ ~LanguageRaises(user_data[cur.user].parsed_data.language_shorthand))
        => /\ Photos = {}
           /\ OnlyPosterUnavailable

\* the texts sent that begin with '/'
BeginsWithSlash(t) == t \in {Command, Slash}

\* C17: a message that begins with '/' is ignored, whether or not its sender
\* has a pending session: every step that starts or ends its handling sends no
\* reply, makes no request to the movie database and leaves the stored data of
\* every user as it was.
C17_SlashIgnored ==
    [][(cur' # cur /\ BeginsWithSlash(cur'.text))
          => /\ sent' = <<>>
             /\ cur'.search = "none"
             /\ cur'.details = "none"
             /\ user_data' = user_data]_vars

\* a text that begins with '/' and is no command has been handled for a user
\* with a pending session
C17_Witness ==
    /\ Handled
    /\ cur.handler = "handle_initial_message"
    /\ cur.text = Slash
    /\ cur.pending # <<>>
    /\ PendingOf(cur.user) = cur.pending

\* the same for a command, which no handler accepts
C17_WitnessCommand ==
    /\ Handled
    /\ cur.handler = None
    /\ cur.text = Command
    /\ cur.pending # <<>>

\* C18: a post that a selection reply produces carries the link of the
\* submission whose search returned the selected candidate: the parsed data
\* used for the post and the candidates chosen from are a matching pair.
C18_PostFromMatchingPair ==
    (Handled /\ cur.handler = "handle_choice")
        => \A i \in Photos :
              sent[i].photo.link = LinkOfTitle(SearchedTitle(cur.selected))

\* a text that is neither a command nor a numeric reply and does not have
\* four lines
Malformed(t) ==
    /\ ~BeginsWithSlash(t)
    /\ ~IsChoice(t)
    /\ Len(StripText(t)) # RequiredLines

\* C19: a malformed submission is answered with the format error alone and
\* no step of its handling changes what is stored: parsed data and candidates
\* stay as they were, so a pending session survives it.
C19_MalformedLeavesStore ==
    [][(cur' # cur /\ Malformed(cur'.text))
          => /\ user_data' = user_data
             /\ cur'.search = "none"
             /\ cur'.pc \in {"start", "done"}
             /\ cur'.pc = "done" => sent' = <<TextMsg(MsgFormat)>>]_vars

\* a text of three lines has been rejected and the session that was pending
\* is still stored
C19_Witness ==
    /\ Handled
    /\ cur.text = ThreeLines
    /\ sent = <<TextMsg(MsgFormat)>>
    /\ cur.pending # <<>>
    /\ PendingOf(cur.user) = cur.pending
    /\ user_data[cur.user].has_parsed

============================================================================
